---- MODULE Spec2Model ----
(***************************************************************************)
(* rockhound.mcmurray_facies.fetch_mcmurray_facies as a state machine.     *)
(*                                                                         *)
(* One call of the function is a walk of pc:                               *)
(*   idle -> fetch -> check_load -> primary -> fallback -> rename -> done  *)
(* The registry (pooch), the CSV parser and DataFrame.rename (pandas) are  *)
(* the collaborators; what they answer is chosen by the environment.       *)
(***************************************************************************)
EXTENDS Integers, Sequences, FiniteSets, TLC

VARIABLES
    pc,                 \* position of the current call
    abbreviations_only, \* argument of the current call
    load,               \* argument of the current call
    fname,              \* local: the value REGISTRY.fetch returned
    data,               \* local: the parsed table or the sentinel string
    result,             \* how the call ended: returned value or raised error
    parsed,             \* paths handed to pd.read_csv in this call, in order
    printed,            \* lines this call wrote to standard output
    renames,            \* calls of data.rename made in this call
    fetchOut,           \* "" | "ok" | the error REGISTRY.fetch raised
    primaryOut,         \* "" | "ok" | the error the primary read_csv raised
    fallbackOut,        \* "" | "ok" | the error the fallback read_csv raised
    primaryTable,       \* the table the primary read_csv produced, if any
    fallbackTable,      \* the table the fallback read_csv produced, if any
    downloaded,         \* whether this call's fetch downloaded the archive
    cached,             \* registry: the archive is in the local cache
    shape,              \* environment: what the fetch returns, "path" or "list"
    prev,               \* the latest finished load=False call that returned
    calls               \* calls started so far

vars == <<pc, abbreviations_only, load, fname, data, result, parsed, printed,
          renames, fetchOut, primaryOut, fallbackOut, primaryTable,
          fallbackTable, downloaded, cached, shape, prev, calls>>

(***************************************************************************)
(* Bounds of the model.                                                    *)
(***************************************************************************)
MaxCalls == 3
MaxCols == 2

(***************************************************************************)
(* Python values.                                                          *)
(***************************************************************************)
None == [kind |-> "None", s |-> "", items |-> <<>>, columns |-> <<>>]

PyStr(x) == [kind |-> "str", s |-> x, items |-> <<>>, columns |-> <<>>]

PyList(xs) == [kind |-> "list", s |-> "", items |-> xs, columns |-> <<>>]

DataFrame(cols) == [kind |-> "DataFrame", s |-> "", items |-> <<>>, columns |-> cols]

\* x[0]: the first element of a list, the first character of a str.
GetItem0(v) == IF v.kind = "list" THEN v.items[1] ELSE PyStr(Head(v.s))

\* str(x): a str is returned as it is, anything else by its printed form.
Str(v) == IF v.kind = "str" THEN v ELSE PyStr("<" \o v.kind \o ">")

(***************************************************************************)
(* The two column-name lists.                                              *)
(***************************************************************************)
spelled_out_columns ==
    << "Unnamed: 0", "CALI=Caliper", "COND=Fluid Conductivity",
       "DELT=Travel Time Interval between Successive Shots",
       "DEPT=Depth", "DPHI=Density Porosity",
       "DT=Delta-T also called Slowness or Interval Transit Time",
       "GR=Gamma Ray", "ILD=Induction Deep Resistivity", "ILM=Induction Medium Resistivity",
       "NPHI=Thermal Neutron Porosity (original Ratio Method) in Selected Lithology",
       "PHID=Porosity-LDT NGT Tools", "RHOB=Bulk Density",
       "SFL=Spherically Focused Log Resitivity",
       "SFLU=SFL Resistivity Unaveraged", "SN=Short Normal Resistivity (16 inch spacing)",
       "SP=Spontaneous Potential", "UWI=Unique Well Identifier",
       "SitID=Site Identification Number",
       "lat=latitude", "lng=longitude", "Depth=Depth", "LithID=Lithology Identity Number",
       "W_Tar=Weight Percent Tar", "SW=Water Saturation", "VSH=Volume of Shale",
       "PHI=Porosity",
       "RW=Connate Water Resistivity", "lithName=Lithology Name" >>

\* The abbreviated list as the docstring gives it: without the index column.
abbreviated_columns_docstring ==
    << "CALI", "COND", "DELT", "DEPT", "DPHI", "DT", "GR",
       "ILD", "ILM", "NPHI", "PHID", "RHOB", "SFL", "SFLU", "SN", "SP", "UWI", "SitID", "lat",
       "lng", "Depth", "LithID", "W_Tar", "SW", "VSH", "PHI", "RW", "lithName" >>

abbreviated_columns ==
    << "Unnamed: 0", "CALI", "COND", "DELT", "DEPT", "DPHI", "DT", "GR",
       "ILD", "ILM", "NPHI", "PHID", "RHOB", "SFL", "SFLU", "SN", "SP", "UWI", "SitID", "lat",
       "lng", "Depth", "LithID", "W_Tar", "SW", "VSH", "PHI", "RW", "lithName" >>

\* The columns= argument of the rename call.
RenameColumnsArg(abbr) ==
    IF abbr THEN PyList(abbreviated_columns) ELSE PyList(spelled_out_columns)

(***************************************************************************)
(* The registry: fetch with a post-processing step, and its cache.         *)
(***************************************************************************)
ArchiveName == "mcmurray_facies_v1.tar.gz"

CachePath(name) == "cache/" \o name

ExtractedMembers(name) ==
    << PyStr(CachePath(name) \o ".unzip/mcmurray_facies_v1/mcmurray_facies_v1.csv"),
       PyStr(CachePath(name) \o ".unzip/mcmurray_facies_v1/README.md") >>

\* The processor line 118 hands to the fetch.
FetchProcessorByFlag(abbr) == IF abbr THEN "Unzip" ELSE "None"

FetchProcessor(abbr) == "Unzip"

\* What a successful fetch returns.
RegistryValue(name, processor, sh) ==
    IF processor = "Unzip"
    THEN IF sh = "list" THEN PyList(ExtractedMembers(name))
                        ELSE ExtractedMembers(name)[1]
    ELSE PyStr(CachePath(name))

\* The cache: a fetch downloads exactly when the archive is not cached yet.
NeedsDownload(c) == ~c

FetchErrors == {"HTTPError", "OSError"}

(***************************************************************************)
(* The CSV parser.                                                         *)
(***************************************************************************)
PrimaryPath == "mcmurray_facies_v1/mcmurray_facies_v1.csv"

FallbackPath(f) == Str(GetItem0(f)).s

ParseErrors == {"NotImplementedError", "ParserError", "FileNotFoundError"}

\* Column names a parsed header is drawn from: listed ones and one that is not.
ColumnPool == {"Unnamed: 0", "GR", "UWI", "Extra"}

Injective(q) == \A i, j \in DOMAIN q : q[i] = q[j] => i = j

\* Headers read_csv can produce: at least one column, no name twice.
Headers ==
    {abbreviated_columns} \cup
    UNION { {q \in [1..n -> ColumnPool] : Injective(q)} : n \in 1..MaxCols }

Sentinel == "could not read hdf as the conversion of fname to a stringified version                  didn't work well. Oops."

(***************************************************************************)
(* Exception handlers of the function body.                                *)
(***************************************************************************)
HandlerFetchInTry(site, exc) ==
    CASE site = "fetch" -> "sentinel"
      [] site = "primary" /\ exc = "NotImplementedError" -> "fallback"
      [] site = "fallback" /\ exc = "NotImplementedError" -> "sentinel"
      [] OTHER -> "propagate"

HandlerBareExcept(site, exc) ==
    CASE site = "primary" -> "fallback"
      [] site = "fallback" -> "sentinel"
      [] OTHER -> "propagate"

\* Which handler takes an exception raised at a site of the body.
Handler(site, exc) ==
    CASE site = "primary" /\ exc = "NotImplementedError" -> "fallback"
      [] site = "fallback" /\ exc = "NotImplementedError" -> "sentinel"
      [] OTHER -> "propagate"

Returned(v) == [kind |-> "return", value |-> v, exc |-> ""]

Raised(e) == [kind |-> "raise", value |-> None, exc |-> e]

NoResult == [kind |-> "none", value |-> None, exc |-> ""]

\* An exception raised at a site: caught by a handler of the body or propagated.
Dispatch(site, exc) ==
    CASE Handler(site, exc) = "fallback" ->
            /\ pc' = "fallback"
            /\ UNCHANGED <<data, printed, result>>
      [] Handler(site, exc) = "sentinel" ->
            /\ data' = PyStr(Sentinel)
            /\ printed' = Append(printed, Sentinel)
            /\ pc' = "rename"
            /\ UNCHANGED result
      [] OTHER ->
            /\ result' = Raised(exc)
            /\ pc' = "done"
            /\ UNCHANGED <<data, printed>>

(***************************************************************************)
(* DataFrame.rename(columns=...), not in place.                            *)
(***************************************************************************)
\* The renamer pandas derives from the argument: a mapping is looked up, anything
\* else is taken to be a function and called on each label.
RenamerKind(arg) == IF arg.kind = "dict" THEN "mapping" ELSE "call"

Callable(arg) == arg.kind = "function"

\* The error data.rename(columns=arg) raises, "" when it raises none.
RenameError(d, arg) ==
    IF d.kind # "DataFrame" THEN "AttributeError"
    ELSE IF RenamerKind(arg) = "call" /\ ~Callable(arg) /\ Len(d.columns) > 0
         THEN "TypeError"
         ELSE ""

(***************************************************************************)
(* The call, statement by statement.                                       *)
(***************************************************************************)
Init ==
    /\ pc = "idle"
    /\ abbreviations_only = TRUE
    /\ load = TRUE
    /\ fname = None
    /\ data = None
    /\ result = NoResult
    /\ parsed = <<>>
    /\ printed = <<>>
    /\ renames = 0
    /\ fetchOut = ""
    /\ primaryOut = ""
    /\ fallbackOut = ""
    /\ primaryTable = None
    /\ fallbackTable = None
    /\ downloaded = FALSE
    /\ cached \in BOOLEAN
    /\ shape \in {"path", "list"}
    /\ prev = [seen |-> FALSE, value |-> None, abbr |-> TRUE]
    /\ calls = 0

\* fetch_mcmurray_facies(abbreviations_only=a, load=l) is entered.
Call(a, l) ==
    /\ pc \in {"idle", "done"}
    /\ calls < MaxCalls
    /\ calls' = calls + 1
    /\ prev' = IF pc = "done" /\ ~load /\ result.kind = "return"
               THEN [seen |-> TRUE, value |-> result.value, abbr |-> abbreviations_only]
               ELSE prev
    /\ abbreviations_only' = a
    /\ load' = l
    /\ fname' = None
    /\ data' = None
    /\ result' = NoResult
    /\ parsed' = <<>>
    /\ printed' = <<>>
    /\ renames' = 0
    /\ fetchOut' = ""
    /\ primaryOut' = ""
    /\ fallbackOut' = ""
    /\ primaryTable' = None
    /\ fallbackTable' = None
    /\ downloaded' = FALSE
    /\ pc' = "fetch"
    /\ UNCHANGED <<cached, shape>>

\* REGISTRY.fetch(...) answers: from the cache, or after a download.
FetchOk ==
    /\ pc = "fetch"
    /\ fname' = RegistryValue(ArchiveName, FetchProcessor(abbreviations_only), shape)
    /\ downloaded' = NeedsDownload(cached)
    /\ cached' = TRUE
    /\ fetchOut' = "ok"
    /\ pc' = "check_load"
    /\ UNCHANGED <<abbreviations_only, load, data, result, parsed, printed, renames,
                   primaryOut, fallbackOut, primaryTable, fallbackTable, shape,
                   prev, calls>>

\* REGISTRY.fetch(...) raises.
FetchFail(e) ==
    /\ pc = "fetch"
    /\ fetchOut' = e
    /\ Dispatch("fetch", e)
    /\ UNCHANGED <<abbreviations_only, load, fname, parsed, renames, primaryOut,
                   fallbackOut, primaryTable, fallbackTable, downloaded, cached,
                   shape, prev, calls>>

SkipsLoadInverted(l) == l

\* if not load: return fname
SkipsLoad(l) == ~l

CheckLoad ==
    /\ pc = "check_load"
    /\ IF SkipsLoad(load)
       THEN /\ result' = Returned(fname)
            /\ pc' = "done"
       ELSE /\ pc' = "primary"
            /\ UNCHANGED result
    /\ UNCHANGED <<abbreviations_only, load, fname, data, parsed, printed, renames,
                   fetchOut, primaryOut, fallbackOut, primaryTable, fallbackTable,
                   downloaded, cached, shape, prev, calls>>

\* pd.read_csv of the fixed relative path yields a table with header h.
PrimaryOk(h) ==
    /\ pc = "primary"
    /\ parsed' = Append(parsed, PrimaryPath)
    /\ primaryOut' = "ok"
    /\ primaryTable' = DataFrame(h)
    /\ data' = DataFrame(h)
    /\ pc' = "rename"
    /\ UNCHANGED <<abbreviations_only, load, fname, result, printed, renames, fetchOut,
                   fallbackOut, fallbackTable, downloaded, cached, shape, prev,
                   calls>>

\* pd.read_csv of the fixed relative path raises e.
PrimaryFail(e) ==
    /\ pc = "primary"
    /\ parsed' = Append(parsed, PrimaryPath)
    /\ primaryOut' = e
    /\ Dispatch("primary", e)
    /\ UNCHANGED <<abbreviations_only, load, fname, renames, fetchOut, fallbackOut,
                   primaryTable, fallbackTable, downloaded, cached, shape, prev,
                   calls>>

\* pd.read_csv(str(fname[0])) yields a table with header h.
FallbackOk(h) ==
    /\ pc = "fallback"
    /\ parsed' = Append(parsed, FallbackPath(fname))
    /\ fallbackOut' = "ok"
    /\ fallbackTable' = DataFrame(h)
    /\ data' = DataFrame(h)
    /\ pc' = "rename"
    /\ UNCHANGED <<abbreviations_only, load, fname, result, printed, renames, fetchOut,
                   primaryOut, primaryTable, downloaded, cached, shape, prev,
                   calls>>

\* pd.read_csv(str(fname[0])) raises e.
FallbackFail(e) ==
    /\ pc = "fallback"
    /\ parsed' = Append(parsed, FallbackPath(fname))
    /\ fallbackOut' = e
    /\ Dispatch("fallback", e)
    /\ UNCHANGED <<abbreviations_only, load, fname, renames, fetchOut, primaryOut,
                   primaryTable, fallbackTable, downloaded, cached, shape, prev,
                   calls>>

\* data.rename(columns=...), its result dropped, then return data.
Rename ==
    /\ pc = "rename"
    /\ renames' = renames + 1
    /\ LET err == RenameError(data, RenameColumnsArg(abbreviations_only))
       IN IF err # ""
          THEN Dispatch("rename", err)
          ELSE /\ result' = Returned(data)
               /\ pc' = "done"
               /\ UNCHANGED <<data, printed>>
    /\ UNCHANGED <<abbreviations_only, load, fname, parsed, fetchOut, primaryOut,
                   fallbackOut, primaryTable, fallbackTable, downloaded, cached,
                   shape, prev, calls>>

Next ==
    \/ \E a, l \in BOOLEAN : Call(a, l)
    \/ FetchOk
    \/ \E e \in FetchErrors : FetchFail(e)
    \/ CheckLoad
    \/ \E h \in Headers : PrimaryOk(h)
    \/ \E e \in ParseErrors : PrimaryFail(e)
    \/ \E h \in Headers : FallbackOk(h)
    \/ \E e \in ParseErrors : FallbackFail(e)
    \/ Rename

Spec == Init /\ [][Next]_vars

(***************************************************************************)
(* What a finished call looked like.                                       *)
(***************************************************************************)
ParseSucceeded == primaryOut = "ok" \/ fallbackOut = "ok"

\* The table the successful parse attempt produced.
ParsedTable == IF primaryOut = "ok" THEN primaryTable ELSE fallbackTable

ReturnedTable == result.kind = "return" /\ result.value.kind = "DataFrame"

\* Position of a name in the abbreviated list, 0 when it is not listed.
PositionOf(name) ==
    IF \E n \in DOMAIN abbreviated_columns : abbreviated_columns[n] = name
    THEN CHOOSE n \in DOMAIN abbreviated_columns : abbreviated_columns[n] = name
    ELSE 0

(***************************************************************************)
(* C1: with load and not abbreviations_only, after a successful parse the  *)
(* call returns the table with every listed column at position N renamed   *)
(* to the spelled-out name at position N.                                  *)
(***************************************************************************)
C1_SpelledOutReturned ==
    (pc = "done" /\ load /\ ~abbreviations_only /\ ParseSucceeded) =>
        /\ ReturnedTable
        /\ Len(result.value.columns) = Len(ParsedTable.columns)
        /\ \A i \in DOMAIN ParsedTable.columns :
              PositionOf(ParsedTable.columns[i]) # 0 =>
                 result.value.columns[i] =
                    spelled_out_columns[PositionOf(ParsedTable.columns[i])]

(***************************************************************************)
(* C2: when both parse attempts raise NotImplementedError the call returns *)
(* a string, a diagnostic line has been printed and no exception escapes.  *)
(***************************************************************************)
C2_SentinelReturned ==
    (pc = "done" /\ primaryOut = "NotImplementedError"
                 /\ fallbackOut = "NotImplementedError") =>
        /\ result.kind = "return"
        /\ result.value.kind = "str"
        /\ Len(printed) >= 1

(***************************************************************************)
(* C3: with load and abbreviations_only, after a successful parse the call *)
(* returns the table under the header names as they were parsed.           *)
(***************************************************************************)
C3_AbbreviatedReturned ==
    (pc = "done" /\ load /\ abbreviations_only /\ ParseSucceeded) =>
        /\ ReturnedTable
        /\ result.value.columns = ParsedTable.columns

(***************************************************************************)
(* C4: with load false the call returns exactly what the registry fetch    *)
(* produced, and makes no parse attempt, no rename and no diagnostic.      *)
(***************************************************************************)
C4_NoLoadReturnsFetch ==
    /\ (pc # "idle" /\ ~load) =>
          parsed = <<>> /\ renames = 0 /\ printed = <<>>
    /\ (pc = "done" /\ ~load /\ fetchOut = "ok") =>
          /\ result = Returned(fname)
          /\ result.value = RegistryValue(ArchiveName, "Unzip", shape)

C4_Witness ==
    /\ pc = "done" /\ ~load /\ ~abbreviations_only
    /\ result.kind = "return" /\ result.value.kind = "list"

(***************************************************************************)
(* C5: the rename step never raises and never adds or drops columns; every *)
(* column not named in the list keeps its name.                            *)
(***************************************************************************)
C5_RenamePreservesColumns ==
    (pc = "done" /\ renames > 0 /\ ParseSucceeded) =>
        /\ result.kind # "raise"
        /\ ReturnedTable
        /\ Len(result.value.columns) = Len(ParsedTable.columns)
        /\ \A i \in DOMAIN ParsedTable.columns :
              PositionOf(ParsedTable.columns[i]) = 0 =>
                 result.value.columns[i] = ParsedTable.columns[i]

(***************************************************************************)
(* C6: a load=False call that returns after an earlier load=False call     *)
(* returned gives the identical path value and downloads nothing, whatever *)
(* abbreviations_only was on either call.                                  *)
(***************************************************************************)
C6_SecondNoLoadFromCache ==
    (pc = "done" /\ ~load /\ result.kind = "return" /\ prev.seen) =>
        /\ result.value = prev.value
        /\ ~downloaded

C6_Witness ==
    /\ pc = "done" /\ ~load /\ result.kind = "return"
    /\ prev.seen /\ prev.abbr # abbreviations_only
    /\ calls = 3

(***************************************************************************)
(* C7: the two column-name lists have the same length; at every position   *)
(* the spelled-out entry is the abbreviated code followed by "=" and a     *)
(* description, the index column "Unnamed: 0" being the same in both; no   *)
(* abbreviated name occurs twice.  The lists are locals of the function,   *)
(* built on entry of every call.                                           *)
(***************************************************************************)
C7_ListsCorrespond ==
    pc # "idle" =>
        /\ Len(abbreviated_columns) = Len(spelled_out_columns)
        /\ \A n \in DOMAIN abbreviated_columns :
              LET a == abbreviated_columns[n]
                  s == spelled_out_columns[n]
              IN IF a = "Unnamed: 0"
                 THEN s = a
                 ELSE /\ Len(s) > Len(a) + 1
                      /\ SubSeq(s, 1, Len(a) + 1) = a \o "="
        /\ Injective(abbreviated_columns)

C7_Witness ==
    /\ pc = "rename" /\ ~abbreviations_only
    /\ data.kind = "DataFrame" /\ data.columns = abbreviated_columns

(***************************************************************************)
(* C8: a failure of the registry fetch ends the call with that very error: *)
(* no parse attempt, no sentinel string, no diagnostic, for every          *)
(* combination of the two flags.                                           *)
(***************************************************************************)
C8_FetchFailurePropagates ==
    fetchOut \in FetchErrors =>
        /\ pc = "done"
        /\ result = Raised(fetchOut)
        /\ parsed = <<>>
        /\ printed = <<>>
        /\ renames = 0
        /\ data = None

C8_Witness ==
    /\ pc = "done" /\ fetchOut = "HTTPError" /\ load /\ ~abbreviations_only
    /\ result.kind = "raise"

(***************************************************************************)
(* C9: with load true the fetch comes first, then the primary parse of the *)
(* fixed relative path; the fallback parse happens exactly when the        *)
(* primary raised NotImplementedError, at most once, on str(fname[0]);     *)
(* when the primary parse succeeds its table is the one returned.          *)
(***************************************************************************)
ParseOrdering ==
    /\ parsed # <<>> => (load /\ fetchOut = "ok" /\ parsed[1] = PrimaryPath)
    /\ Len(parsed) <= 2
    /\ Len(parsed) = 2 => /\ primaryOut = "NotImplementedError"
                          /\ parsed[2] = Str(GetItem0(fname)).s
    /\ (pc \in {"rename", "done"} /\ primaryOut = "NotImplementedError")
          => Len(parsed) = 2
    /\ primaryOut = "ok" => fallbackOut = ""

C9_OrderedParseAttempts ==
    /\ ParseOrdering
    /\ (pc = "done" /\ primaryOut = "ok") => result = Returned(primaryTable)

(***************************************************************************)
(* C10: a parse error other than NotImplementedError ends the call with    *)
(* that error: after the primary attempt without a fallback attempt, after *)
(* the fallback attempt as well; no string is returned, nothing printed.   *)
(***************************************************************************)
OtherParseErrors == ParseErrors \ {"NotImplementedError"}

C10_OtherParseErrorsPropagate ==
    /\ primaryOut \in OtherParseErrors =>
          /\ pc = "done"
          /\ result = Raised(primaryOut)
          /\ Len(parsed) = 1 /\ fallbackOut = ""
          /\ printed = <<>>
    /\ fallbackOut \in OtherParseErrors =>
          /\ pc = "done"
          /\ result = Raised(fallbackOut)
          /\ printed = <<>>

C10_Witness ==
    /\ pc = "done" /\ primaryOut = "NotImplementedError"
    /\ fallbackOut = "ParserError" /\ result = Raised("ParserError")

====
